---- MODULE Spec2Model ----
(***************************************************************************)
(* qpow-benchmark (src/src/main.rs): the trial runner find_one_nonce and   *)
(* the difficulty sweep of main.                                           *)
(*                                                                         *)
(* Scaling.  The attempt counter is a u64 and the safety limit is          *)
(* 100 * difficulty.  Both are scaled together: the counter is             *)
(* COUNTER_BITS wide and the factor is SAFETY_FACTOR, so that the model    *)
(* has difficulties whose limit fits the counter and difficulties whose    *)
(* limit saturates.  Seconds (f64) are whole clock ticks; 0.0 is 0.        *)
(***************************************************************************)
EXTENDS Integers, Sequences, FiniteSets, TLC

\* ------------------------------------------------------------------ bounds
\* Width of the attempt counter (u64 in the source).
COUNTER_BITS == 3
\* The factor of the safety limit (the literal 100 of main.rs:46).
SAFETY_FACTOR == 2
\* Trials per difficulty (50 in the source).
NUM_SAMPLES == 2
\* Worker threads of the Rayon pool.
NumWorkers == 2
\* The clock stops ticking here.
MaxTime == 1
\* Longest difficulty sweep.
MaxSweepLen == 2

\* ------------------------------------------------------------- arithmetic
U64_MAX == 2^COUNTER_BITS - 1

\* A variant: the product taken with raw fixed-width multiplication.
SaturatingMul_Wrapping(a, b) == (a * b) % 2^COUNTER_BITS

\* u64::saturating_mul
SaturatingMul(a, b) == IF a * b > U64_MAX THEN U64_MAX ELSE a * b

\* nonce_count += 1 on a u64: exact below the maximum; at the maximum a build
\* with overflow checks panics and one without wraps to 0.
Increment(n) ==
    IF n < U64_MAX
    THEN {[value |-> n + 1, panic |-> FALSE]}
    ELSE {[value |-> 0, panic |-> FALSE], [value |-> n, panic |-> TRUE]}

\* The smallest difficulty whose limit saturates.
FirstSaturating == (U64_MAX \div SAFETY_FACTOR) + 1

\* Difficulties of the model: 0, two small ones, one whose limit saturates.
\* 100*d and 100*d + 1 never equal u64::MAX (2^64 - 1 is odd, 2^64 - 2 is not
\* a multiple of 100), so a scaled difficulty for which they would is left out.
Difficulties ==
    {d \in {0, 1, 2, FirstSaturating} :
        d = 0 \/ (SAFETY_FACTOR * d # U64_MAX /\ SAFETY_FACTOR * d + 1 # U64_MAX)}

Samples == 1..NUM_SAMPLES

\* --------------------------------------------------------------- the state
VARIABLES
    difficulties,        \* main: the sweep list
    oracle,              \* how is_valid_nonce answers at each difficulty
    now,                 \* the monotonic clock read by Instant::now()
    pc,                  \* main: where it stands
    idx,                 \* main: position of the for loop in difficulties
    difficulty,          \* main: the loop variable
    start_time,          \* main: start_time of the batch
    total_nonce_count,   \* main: u128 accumulator
    successful_samples,  \* main
    total_elapsed_secs,  \* main
    elapsed_secs,        \* main: the batch's elapsed seconds
    counts,              \* main: the collected Vec<(u64, f64)>, by sample index
    ri,                  \* main: position of `for count in counts`
    summary,             \* main: the values of the summary line just printed
    queue,               \* par_iter: sample indices no trial has taken yet
    trial,               \* per sample: the find_one_nonce call that runs it
    out,                 \* stdout, line by line
    err,                 \* stderr, line by line
    thread,              \* per sample: the pool thread its call runs on (0: not tracked)
    rng                  \* per pool thread: its thread-local generator

vars == <<difficulties, oracle, now, pc, idx, difficulty, start_time,
          total_nonce_count, successful_samples, total_elapsed_secs,
          elapsed_secs, counts, ri, summary, queue, trial, out, err,
          thread, rng>>

\* The generators and who runs where.  Nothing main reads depends on them, so
\* only the specification that follows the generators (SpecRng) moves them.
rngVars == <<thread, rng>>

\* The threads of the pool.
Threads == 1..NumWorkers

mainVars == <<pc, idx, difficulty, start_time, total_nonce_count,
              successful_samples, total_elapsed_secs, elapsed_secs, ri,
              summary, out>>

\* A slot of counts no trial has filled yet.
Pending ==
    [count |-> 0, secs |-> 0, evals |-> 0, accepted |-> FALSE, guard |-> "pending"]

\* A sample no call of find_one_nonce is running.
Idle == [running |-> FALSE, nonce_count |-> 0, start_time |-> 0, evals |-> 0]

\* An f64 of the summary line: a quotient kept as numerator and denominator
\* (the operands are far below 2^53, so `as f64` is exact), or not-a-number.
Quotient(num, den) == [nan |-> FALSE, num |-> num, den |-> den]

Zero == Quotient(0, 1)

NaN == [nan |-> TRUE, num |-> 0, den |-> 0]

\* No summary line printed yet for the difficulty.
NoSummary ==
    [kind |-> "none", average_nonce_count |-> Zero, average_elapsed_secs |-> Zero,
     aggregate_hash_rate |-> Zero, elapsed_secs |-> 0, samples |-> 0]

\* ------------------------------------------------------- find_one_nonce
\* is_valid_nonce is a black box that depends on the difficulty and the random
\* nonce: at a difficulty it accepts every nonce, no nonce, or some nonces.
Modes == {"always", "never", "any"}

\* The answers is_valid_nonce can give to one random nonce.
OracleAnswers(kind) ==
    CASE kind = "always" -> {TRUE}
      [] kind = "never" -> {FALSE}
      [] OTHER -> BOOLEAN

\* A variant: the guard fires on reaching the limit.
ExceedsSafetyLimit_AtLimit(nonce_count, d) ==
    nonce_count >= SaturatingMul(d, SAFETY_FACTOR) /\ d > 0

\* A variant: the guard fires one attempt late.
ExceedsSafetyLimit_OneLate(nonce_count, d) ==
    nonce_count > SaturatingMul(d, SAFETY_FACTOR) + 1 /\ d > 0

\* main.rs:46, the difficulty-based guard.
ExceedsSafetyLimit(nonce_count, d) ==
    nonce_count > SaturatingMul(d, SAFETY_FACTOR) /\ d > 0

\* A variant: the ceiling tested with > instead of ==.
ReachedCeiling_OffByOne(nonce_count) == nonce_count > U64_MAX

\* main.rs:55, the ceiling of the counter.
ReachedCeiling(nonce_count) == nonce_count = U64_MAX

\* A variant: attempts counted from 0.
SuccessResult_ZeroIndexed(nonce_count, secs, evals) ==
    [count |-> nonce_count - 1, secs |-> secs, evals |-> evals,
     accepted |-> TRUE, guard |-> "none"]

\* main.rs:37, the result of a trial that found a nonce.  evals, accepted and
\* guard are bookkeeping of the model: the oracle evaluations performed, whether
\* the oracle accepted, and the guard that aborted the trial.
SuccessResult(nonce_count, secs, evals) ==
    [count |-> nonce_count, secs |-> secs, evals |-> evals,
     accepted |-> TRUE, guard |-> "none"]

\* main.rs:53 and main.rs:60, the abort sentinel.
AbortResult(evals, guard) ==
    [count |-> U64_MAX, secs |-> 0, evals |-> evals,
     accepted |-> FALSE, guard |-> guard]

\* A variant: the loop body without the ceiling guard.
LoopBody_NoCeiling(nonce_count, d, valid, secs, evals) ==
    IF valid THEN SuccessResult(nonce_count, secs, evals)
    ELSE IF ExceedsSafetyLimit(nonce_count, d) THEN AbortResult(evals, "limit")
    ELSE Pending

\* One pass through the loop body (main.rs:20-61) with the counter at
\* nonce_count and the oracle answering valid: the result returned, or Pending
\* when the loop goes round again.
LoopBody(nonce_count, d, valid, secs, evals) ==
    IF valid THEN SuccessResult(nonce_count, secs, evals)
    ELSE IF ExceedsSafetyLimit(nonce_count, d) THEN AbortResult(evals, "limit")
    ELSE IF ReachedCeiling(nonce_count) THEN AbortResult(evals, "ceiling")
    ELSE Pending

\* The line a guard writes to stderr.
Warning(guard, d) == [kind |-> guard, difficulty |-> d]

\* A trial thread of the pool takes sample i of the parallel iterator and
\* enters find_one_nonce (main.rs:12-16).  A thread runs one call at a time.
StartTrial(i) ==
    /\ pc \in {"collect", "call"}
    /\ i \in queue
    /\ Cardinality({j \in Samples : trial[j].running}) < NumWorkers
    /\ queue' = queue \ {i}
    /\ trial' = [trial EXCEPT ![i] =
                    [running |-> TRUE, nonce_count |-> 0, start_time |-> now, evals |-> 0]]
    /\ UNCHANGED <<difficulties, oracle, now, mainVars, counts, err>>

\* One iteration of the loop of find_one_nonce (main.rs:19-62) in the call that
\* runs sample i.
Attempt(i) ==
    /\ trial[i].running
    /\ pc # "panicked"
    /\ \E inc \in Increment(trial[i].nonce_count), valid \in OracleAnswers(oracle[difficulty]) :
         IF inc.panic
         THEN /\ pc' = "panicked"
              /\ UNCHANGED <<trial, counts, err, queue>>
              /\ UNCHANGED <<idx, difficulty, start_time, total_nonce_count,
                             successful_samples, total_elapsed_secs, elapsed_secs,
                             ri, summary, out>>
         ELSE LET r == LoopBody(inc.value, difficulty, valid,
                                now - trial[i].start_time, trial[i].evals + 1)
              IN /\ IF r = Pending
                    THEN /\ trial' = [trial EXCEPT ![i].nonce_count = inc.value,
                                                   ![i].evals = @ + 1]
                         /\ UNCHANGED <<counts, err>>
                    ELSE /\ trial' = [trial EXCEPT ![i] = Idle]
                         /\ counts' = [counts EXCEPT ![i] = r]
                         /\ err' = IF r.guard = "none" THEN err
                                   ELSE Append(err, Warning(r.guard, difficulty))
                 /\ UNCHANGED <<mainVars, queue>>
    /\ UNCHANGED <<difficulties, oracle, now>>

\* The threads of the pool that are inside a call of find_one_nonce.
Busy == {thread[j] : j \in {k \in Samples : trial[k].running}}

\* A variant: a call may enter on a thread that is already inside one.
StartTrialOn_AnyThread(t, i) ==
    /\ StartTrial(i)
    /\ thread' = [thread EXCEPT ![i] = t]
    /\ rng' = [rng EXCEPT ![t].seeded = TRUE]

\* Pool thread t takes sample i and enters find_one_nonce; main.rs:12,
\* thread_rng(), hands the call the generator of the thread it runs on, which
\* is seeded on the thread's first use and kept for the thread's lifetime.  A
\* thread runs one call at a time, to its return.
StartTrialOn(t, i) ==
    /\ t \notin Busy
    /\ StartTrial(i)
    /\ thread' = [thread EXCEPT ![i] = t]
    /\ rng' = [rng EXCEPT ![t].seeded = TRUE]

\* One iteration of the loop on the thread that runs sample i; main.rs:27,
\* rng.fill_bytes, draws from that thread's generator (the increment of
\* main.rs:20 comes first, and a panic there draws nothing).
AttemptOn(i) ==
    /\ Attempt(i)
    /\ rng' = IF pc' = "panicked" THEN rng
              ELSE [rng EXCEPT ![thread[i]].drawn_by = @ \cup {i}]
    /\ UNCHANGED thread

\* ------------------------------------------------------------------ main
\* A line of stdout or stderr: what it reports and for which difficulty.
Line(kind, d) == [kind |-> kind, difficulty |-> d]

\* A variant: no difficulty is skipped.
IsSkipped_Never(d) == FALSE

\* main.rs:102, the test of `if difficulty == 0 { continue; }`.
IsSkipped(d) == d = 0

\* main.rs:102-104, `continue` on difficulty 0.
SkipZero ==
    /\ pc = "loop"
    /\ idx <= Len(difficulties)
    /\ IsSkipped(difficulties[idx])
    /\ idx' = idx + 1
    /\ UNCHANGED <<rngVars, difficulties, oracle, now, pc, difficulty, start_time,
                   total_nonce_count, successful_samples, total_elapsed_secs,
                   elapsed_secs, counts, ri, summary, queue, trial, out, err>>

\* A variant: the parallel range is one sample short (0..NUM_SAMPLES - 1).
StartBatch_OneShort ==
    /\ pc = "loop"
    /\ idx <= Len(difficulties)
    /\ ~IsSkipped(difficulties[idx])
    /\ difficulty' = difficulties[idx]
    /\ start_time' = now
    /\ out' = Append(out, Line("measuring", difficulties[idx]))
    /\ total_nonce_count' = 0
    /\ successful_samples' = 0
    /\ total_elapsed_secs' = 0
    /\ elapsed_secs' = 0
    /\ ri' = 1
    /\ summary' = NoSummary
    /\ queue' = Samples \ {NUM_SAMPLES}
    /\ counts' = [i \in Samples |-> Pending]
    /\ pc' = "collect"
    /\ UNCHANGED <<rngVars, difficulties, oracle, now, idx, trial, err>>

\* main.rs:100-117: the next non-zero difficulty; the timer is started, the
\* locals of the loop body start afresh and the batch is handed to the pool.
StartBatch ==
    /\ pc = "loop"
    /\ idx <= Len(difficulties)
    /\ ~IsSkipped(difficulties[idx])
    /\ difficulty' = difficulties[idx]
    /\ start_time' = now
    /\ out' = Append(out, Line("measuring", difficulties[idx]))
    /\ total_nonce_count' = 0
    /\ successful_samples' = 0
    /\ total_elapsed_secs' = 0
    /\ elapsed_secs' = 0
    /\ ri' = 1
    /\ summary' = NoSummary
    /\ queue' = Samples
    /\ counts' = [i \in Samples |-> Pending]
    /\ pc' = "collect"
    /\ UNCHANGED <<rngVars, difficulties, oracle, now, idx, trial, err>>

\* A variant: collect() returns once every sample has been taken by a thread.
BatchComplete_AllTaken(q, cs) == q = {}

\* A variant: collect() waits for a successful result of every sample.
BatchComplete_AllSucceeded(q, cs) ==
    q = {} /\ \A i \in Samples : cs[i] # Pending /\ cs[i].guard = "none"

\* main.rs:116-119: collect() has every sample's result.
BatchComplete(q, cs) == q = {} /\ \A i \in Samples : cs[i] # Pending

\* main.rs:119-121: collect() returns and the reduction starts.
Collect ==
    /\ pc = "collect"
    /\ BatchComplete(queue, counts)
    /\ total_elapsed_secs' = 0
    /\ ri' = 1
    /\ pc' = "reduce"
    /\ UNCHANGED <<rngVars, difficulties, oracle, now, idx, difficulty, start_time,
                   total_nonce_count, successful_samples, elapsed_secs, counts,
                   summary, queue, trial, out, err>>

\* A variant: no result is taken for the sentinel.
IsSentinel_Never(count) == FALSE

\* main.rs:124, the test `count.0 != u64::MAX` negated.
IsSentinel(count) == count = U64_MAX

\* A variant: the accumulator is as wide as the counter (u64).
Accumulate_Narrow(total, count) == (total + count) % 2^COUNTER_BITS

\* A variant: the accumulator is assigned, not added to.
Accumulate_Last(total, count) == count % 2^(2 * COUNTER_BITS)

\* main.rs:126, total_nonce_count += count.0 as u128: the accumulator is twice
\* as wide as the counter.
Accumulate(total, count) == (total + count) % 2^(2 * COUNTER_BITS)

\* main.rs:123-132 as a function: <<successful_samples, total_nonce_count>>
\* after `for count in counts` has gone through the first n entries of cs.
RECURSIVE FoldCounts(_, _)
FoldCounts(cs, n) ==
    IF n = 0 THEN <<0, 0>>
    ELSE LET r == FoldCounts(cs, n - 1)
         IN IF ~IsSentinel(cs[n].count)
            THEN <<r[1] + 1, Accumulate(r[2], cs[n].count)>>
            ELSE r

\* A variant: the reduction drops a failed sample without a line on stderr.
ReduceOne_Silent ==
    /\ pc = "reduce"
    /\ ri <= NUM_SAMPLES
    /\ IF ~IsSentinel(counts[ri].count)
       THEN /\ total_nonce_count' = Accumulate(total_nonce_count, counts[ri].count)
            /\ total_elapsed_secs' = total_elapsed_secs + counts[ri].secs
            /\ successful_samples' = successful_samples + 1
       ELSE UNCHANGED <<total_nonce_count, total_elapsed_secs, successful_samples>>
    /\ ri' = ri + 1
    /\ UNCHANGED <<rngVars, difficulties, oracle, now, pc, idx, difficulty, start_time,
                   elapsed_secs, counts, summary, queue, trial, out, err>>

\* main.rs:123-132: one iteration of `for count in counts`.
ReduceOne ==
    /\ pc = "reduce"
    /\ ri <= NUM_SAMPLES
    /\ IF ~IsSentinel(counts[ri].count)
       THEN /\ total_nonce_count' = Accumulate(total_nonce_count, counts[ri].count)
            /\ total_elapsed_secs' = total_elapsed_secs + counts[ri].secs
            /\ successful_samples' = successful_samples + 1
            /\ err' = err
       ELSE /\ err' = Append(err, Line("skipping", difficulty))
            /\ UNCHANGED <<total_nonce_count, total_elapsed_secs, successful_samples>>
    /\ ri' = ri + 1
    /\ UNCHANGED <<rngVars, difficulties, oracle, now, pc, idx, difficulty, start_time,
                   elapsed_secs, counts, summary, queue, trial, out>>

\* main.rs:134-135: the batch's timer is read after the reduction.
StopTimer ==
    /\ pc = "reduce"
    /\ ri > NUM_SAMPLES
    /\ elapsed_secs' = now - start_time
    /\ pc' = "report"
    /\ UNCHANGED <<rngVars, difficulties, oracle, now, idx, difficulty, start_time,
                   total_nonce_count, successful_samples, total_elapsed_secs,
                   counts, ri, summary, queue, trial, out, err>>

\* A variant: the hash rate taken over the sum of the trials' times.
Summarise_PerTrialRate(total, samples, total_secs, secs) ==
    IF samples > 0
    THEN [kind |-> "stats",
          average_nonce_count |-> Quotient(total, samples),
          average_elapsed_secs |-> Quotient(total_secs, samples),
          aggregate_hash_rate |->
              IF total_secs > 0 THEN Quotient(total, total_secs) ELSE Zero,
          elapsed_secs |-> secs, samples |-> samples]
    ELSE [kind |-> "degenerate",
          average_nonce_count |-> NaN,
          average_elapsed_secs |-> NaN,
          aggregate_hash_rate |-> Zero,
          elapsed_secs |-> secs, samples |-> 0]

\* A variant: with no successful sample the means are reported as 0.
Summarise_ZeroMeans(total, samples, total_secs, secs) ==
    [kind |-> IF samples > 0 THEN "stats" ELSE "degenerate",
     average_nonce_count |-> IF samples > 0 THEN Quotient(total, samples) ELSE Zero,
     average_elapsed_secs |-> IF samples > 0 THEN Quotient(total_secs, samples) ELSE Zero,
     aggregate_hash_rate |-> IF secs > 0 THEN Quotient(total, secs) ELSE Zero,
     elapsed_secs |-> secs, samples |-> samples]

\* main.rs:137-154: the values of the summary line.  With a successful sample
\* the two means and the hash rate; with none the line of main.rs:153, which
\* prints NaN for the means, the batch's seconds, 0.0 and 0.
Summarise(total, samples, total_secs, secs) ==
    IF samples > 0
    THEN [kind |-> "stats",
          average_nonce_count |-> Quotient(total, samples),
          average_elapsed_secs |-> Quotient(total_secs, samples),
          aggregate_hash_rate |-> IF secs > 0 THEN Quotient(total, secs) ELSE Zero,
          elapsed_secs |-> secs, samples |-> samples]
    ELSE [kind |-> "degenerate",
          average_nonce_count |-> NaN,
          average_elapsed_secs |-> NaN,
          aggregate_hash_rate |-> Zero,
          elapsed_secs |-> secs, samples |-> 0]

\* main.rs:137-155: the summary line is printed and the loop goes round.
Report ==
    /\ pc = "report"
    /\ summary' = Summarise(total_nonce_count, successful_samples,
                            total_elapsed_secs, elapsed_secs)
    /\ out' = Append(out, Line(summary'.kind, difficulty))
    /\ idx' = idx + 1
    /\ pc' = "loop"
    /\ UNCHANGED <<rngVars, difficulties, oracle, now, difficulty, start_time,
                   total_nonce_count, successful_samples, total_elapsed_secs,
                   elapsed_secs, counts, ri, queue, trial, err>>

\* A variant: the loop ends one difficulty early.
Complete_OffByOne ==
    /\ pc = "loop"
    /\ idx >= Len(difficulties)
    /\ out' = Append(out, Line("complete", 0))
    /\ pc' = "done"
    /\ UNCHANGED <<rngVars, difficulties, oracle, now, idx, difficulty, start_time,
                   total_nonce_count, successful_samples, total_elapsed_secs,
                   elapsed_secs, counts, ri, summary, queue, trial, err>>

\* main.rs:156: the sweep is over.
Complete ==
    /\ pc = "loop"
    /\ idx > Len(difficulties)
    /\ out' = Append(out, Line("complete", 0))
    /\ pc' = "done"
    /\ UNCHANGED <<rngVars, difficulties, oracle, now, idx, difficulty, start_time,
                   total_nonce_count, successful_samples, total_elapsed_secs,
                   elapsed_secs, counts, ri, summary, queue, trial, err>>

\* Time passes.
Tick ==
    /\ now < MaxTime
    /\ now' = now + 1
    /\ UNCHANGED <<rngVars, difficulties, oracle, mainVars, counts, queue, trial, err>>

\* ------------------------------------------------------- specifications
InitLocals ==
    /\ now = 0
    /\ idx = 1
    /\ start_time = 0
    /\ total_nonce_count = 0
    /\ successful_samples = 0
    /\ total_elapsed_secs = 0
    /\ elapsed_secs = 0
    /\ counts = [i \in Samples |-> Pending]
    /\ ri = 1
    /\ summary = NoSummary
    /\ trial = [i \in Samples |-> Idle]
    /\ err = << >>
    /\ thread = [i \in Samples |-> 0]
    /\ rng = [t \in Threads |-> [seeded |-> FALSE, drawn_by |-> {}]]

\* main at the head of its for loop (main.rs:100).
InitMain ==
    /\ InitLocals
    /\ pc = "loop"
    /\ difficulty = 0
    /\ queue = {}
    /\ out = <<Line("mining_hash", 0)>>

Next ==
    \/ SkipZero
    \/ StartBatch
    \/ \E i \in Samples : StartTrial(i) /\ UNCHANGED rngVars
    \/ \E i \in Samples : Attempt(i) /\ UNCHANGED rngVars
    \/ Collect
    \/ ReduceOne
    \/ StopTimer
    \/ Report
    \/ Complete
    \/ Tick

\* The whole sweep, over every sweep list up to MaxSweepLen of 0 and the
\* difficulties whose limit fits the counter, with an oracle that at each
\* difficulty accepts every nonce or none.
SweepDifficulties == {d \in Difficulties : SAFETY_FACTOR * d < U64_MAX}

Sweeps == UNION {[1..n -> SweepDifficulties] : n \in 1..MaxSweepLen}

Init ==
    /\ InitMain
    /\ difficulties \in Sweeps
    /\ oracle \in [Difficulties -> {"always", "never"}]
    /\ \A d \in Difficulties \ (SweepDifficulties \ {0}) : oracle[d] = "never"

Spec == Init /\ [][Next]_vars

\* One batch: a sweep of one difficulty, with any oracle.
InitBatch ==
    /\ InitMain
    /\ difficulties \in {<<d>> : d \in Difficulties}
    /\ oracle \in {[d \in Difficulties |-> m] : m \in Modes}

SpecBatch == InitBatch /\ [][Next]_vars

\* One direct call find_one_nonce(d, &mining_hash), for any difficulty and
\* any oracle.
InitTrial ==
    /\ InitLocals
    /\ difficulties = << >>
    /\ oracle \in {[d \in Difficulties |-> m] : m \in Modes}
    /\ pc = "call"
    /\ difficulty \in Difficulties
    /\ queue = {1}
    /\ out = << >>

NextTrial ==
    \/ \E i \in Samples : StartTrial(i) /\ UNCHANGED rngVars
    \/ \E i \in Samples : Attempt(i) /\ UNCHANGED rngVars
    \/ Tick

SpecTrial == InitTrial /\ [][NextTrial]_vars

\* A thread that runs find_one_nonce keeps running it, and the pool hands a
\* waiting sample to a free thread.
FairSpecTrial ==
    /\ SpecTrial
    /\ WF_vars(\E i \in Samples : StartTrial(i) /\ UNCHANGED rngVars)
    /\ WF_vars(\E i \in Samples : Attempt(i) /\ UNCHANGED rngVars)

\* One batch with the pool's threads told apart: which thread runs which
\* sample, and which calls have drawn from which thread's generator.  The
\* clock stands still here: no thread and no generator depends on a time.
InitRng ==
    /\ InitMain
    /\ difficulties \in {<<d>> : d \in SweepDifficulties}
    /\ oracle \in {[d \in Difficulties |-> m] : m \in Modes}

NextRng ==
    \/ SkipZero
    \/ StartBatch
    \/ \E t \in Threads, i \in Samples : StartTrialOn(t, i)
    \/ \E i \in Samples : AttemptOn(i)
    \/ Collect
    \/ ReduceOne
    \/ StopTimer
    \/ Report
    \/ Complete

SpecRng == InitRng /\ [][NextRng]_vars

\* The sweep lists of the fair specification: every list of at most two of
\* the difficulties below the first saturating one, 0 included, and the first
\* saturating difficulty alone.
FairSweeps ==
    LET small == {d \in Difficulties : d < FirstSaturating}
    IN {<< >>, <<FirstSaturating>>}
           \cup {<<d>> : d \in small}
           \cup {<<d, e>> : d \in small, e \in small}

\* The whole sweep under fair scheduling, with any oracle.  The clock stands
\* still here: no step of main or of a trial waits for a time.
InitFair ==
    /\ InitMain
    /\ difficulties \in FairSweeps
    /\ oracle \in {[d \in Difficulties |-> m] : m \in Modes}

NextFair ==
    \/ SkipZero
    \/ StartBatch
    \/ \E i \in Samples : StartTrial(i) /\ UNCHANGED rngVars
    \/ \E i \in Samples : Attempt(i) /\ UNCHANGED rngVars
    \/ Collect
    \/ ReduceOne
    \/ StopTimer
    \/ Report
    \/ Complete

\* main is a thread that keeps running; the pool hands a waiting sample to a
\* free thread, and a thread inside find_one_nonce keeps running it.
FairSpec ==
    /\ InitFair
    /\ [][NextFair]_vars
    /\ WF_vars(SkipZero)
    /\ WF_vars(StartBatch)
    /\ WF_vars(Collect)
    /\ WF_vars(ReduceOne)
    /\ WF_vars(StopTimer)
    /\ WF_vars(Report)
    /\ WF_vars(Complete)
    /\ WF_vars(\E i \in Samples : StartTrial(i) /\ UNCHANGED rngVars)
    /\ \A i \in Samples : WF_vars(Attempt(i) /\ UNCHANGED rngVars)

\* ----------------------------------------------------------------- claims
\* Sample i's call of find_one_nonce has returned.
Returned(i) == counts[i] # Pending

\* The product SAFETY_FACTOR * d does not fit the counter.
Saturates(d) == SAFETY_FACTOR * d > U64_MAX

\* C1: a trial that returns a non-sentinel result reports as attemptCount the
\* number of oracle evaluations it performed up to and including the accepting
\* one: the 1-indexed position of the first accepted nonce, never 0, and 1 when
\* the oracle accepts every nonce.
C1_AttemptCountIsFirstAccepted ==
    \A i \in Samples :
        (Returned(i) /\ counts[i].count # U64_MAX) =>
            /\ counts[i].accepted
            /\ counts[i].count = counts[i].evals
            /\ counts[i].count >= 1
            /\ (oracle[difficulty] = "always" => counts[i].count = 1)

C1_Witness ==
    \E i \in Samples :
        /\ Returned(i)
        /\ counts[i].accepted
        /\ counts[i].count > 1
        /\ counts[i].count < U64_MAX

\* C2: at a difficulty d > 0 whose limit does not saturate, a trial against an
\* oracle that never accepts is still running while its attempt count is at
\* most SAFETY_FACTOR * d, and returns after SAFETY_FACTOR * d + 1 evaluations
\* with the sentinel u64::MAX and elapsed time 0.0.
C2_AbortsJustPastTheLimit ==
    \A i \in Samples :
        (difficulty > 0 /\ ~Saturates(difficulty) /\ oracle[difficulty] = "never") =>
            /\ trial[i].running => trial[i].evals <= SAFETY_FACTOR * difficulty
            /\ Returned(i) =>
                  /\ counts[i].evals = SAFETY_FACTOR * difficulty + 1
                  /\ counts[i].count = U64_MAX
                  /\ counts[i].secs = 0
                  /\ counts[i].guard = "limit"

C2_Witness ==
    \E i \in Samples :
        /\ difficulty > 1
        /\ ~Saturates(difficulty)
        /\ oracle[difficulty] = "never"
        /\ Returned(i)
        /\ counts[i].count = U64_MAX
        /\ now > 0

\* C3 as claimed: at a difficulty d > 0 whose limit does not saturate, no trial
\* performs more than SAFETY_FACTOR * d evaluations and no successful result
\* reports more than SAFETY_FACTOR * d attempts.
C3_Original ==
    \A i \in Samples :
        (difficulty > 0 /\ ~Saturates(difficulty)) =>
            /\ trial[i].evals <= SAFETY_FACTOR * difficulty
            /\ counts[i].evals <= SAFETY_FACTOR * difficulty
            /\ counts[i].accepted => counts[i].count <= SAFETY_FACTOR * difficulty

\* C3 amended: at a difficulty d > 0 whose limit does not saturate, no trial
\* performs more than SAFETY_FACTOR * d + 1 evaluations, no successful result
\* reports more than SAFETY_FACTOR * d + 1 attempts, and a trial whose
\* (SAFETY_FACTOR * d + 1)-th evaluation is rejected aborts with the sentinel.
C3_EndsByLimitPlusOne ==
    \A i \in Samples :
        (difficulty > 0 /\ ~Saturates(difficulty)) =>
            /\ trial[i].evals <= SAFETY_FACTOR * difficulty
            /\ counts[i].evals <= SAFETY_FACTOR * difficulty + 1
            /\ counts[i].accepted => counts[i].count <= SAFETY_FACTOR * difficulty + 1
            /\ (Returned(i) /\ ~counts[i].accepted) =>
                  /\ counts[i].evals = SAFETY_FACTOR * difficulty + 1
                  /\ counts[i].count = U64_MAX

C3_Witness ==
    \E i \in Samples :
        /\ difficulty > 0
        /\ ~Saturates(difficulty)
        /\ counts[i].accepted
        /\ counts[i].count = SAFETY_FACTOR * difficulty + 1

\* C4: every call of find_one_nonce returns, a success or the sentinel,
\* whatever the difficulty and whatever the oracle answers.
C4_EveryTrialReturns ==
    <>(queue = {} /\ \A i \in Samples : ~trial[i].running)

C4_Witness ==
    \E i \in Samples :
        /\ Saturates(difficulty)
        /\ oracle[difficulty] = "never"
        /\ Returned(i)
        /\ counts[i].evals = U64_MAX

\* C5: the difficulty-based guard aborts a trial only at an attempt count
\* greater than the true product SAFETY_FACTOR * d, so never at a difficulty
\* whose product exceeds the maximum of the counter.
C5_LimitNeverWraps ==
    \A i \in Samples :
        (Returned(i) /\ counts[i].guard = "limit") =>
            /\ ~Saturates(difficulty)
            /\ counts[i].evals > SAFETY_FACTOR * difficulty

C5_Witness ==
    \E i \in Samples :
        /\ Saturates(difficulty)
        /\ Returned(i)
        /\ counts[i].accepted
        /\ counts[i].evals > ((SAFETY_FACTOR * difficulty) % 2^COUNTER_BITS) + 1

\* C6: at every difficulty, 0 included, a trial whose counter reaches the
\* maximum without an accepted nonce aborts with the sentinel through the
\* ceiling guard, so nonce_count += 1 never runs with the counter at the
\* maximum: the counter neither wraps nor panics.
C6_CounterNeverOverflows ==
    /\ pc # "panicked"
    /\ \A i \in Samples :
          /\ trial[i].running => trial[i].nonce_count < U64_MAX
          /\ (Returned(i) /\ ~counts[i].accepted /\ counts[i].evals = U64_MAX) =>
                /\ counts[i].guard = "ceiling"
                /\ counts[i].count = U64_MAX
                /\ counts[i].secs = 0

C6_Witness ==
    \E i \in Samples :
        /\ difficulty = 0
        /\ Returned(i)
        /\ counts[i].guard = "ceiling"

\* The lines of a log whose kind is one of kinds.
LinesOf(log, kinds) == {k \in DOMAIN log : log[k].kind \in kinds}

\* The non-zero difficulties among the first n of the sweep.
NonZeroUpTo(n) == {k \in 1..n : difficulties[k] # 0}

\* main is inside the loop body of a difficulty.
InBatch == pc \in {"collect", "reduce", "report"}

\* C7: a difficulty 0 of the sweep is skipped: no trial is launched and no
\* oracle evaluation made for it, no line of stdout or stderr reports it, and
\* the sweep goes on: every non-zero difficulty the loop has passed, before or
\* after a 0, has its progress line.
C7_ZeroIsSkipped ==
    /\ \A k \in DOMAIN out :
          out[k].kind \in {"measuring", "stats", "degenerate"} => out[k].difficulty # 0
    /\ \A k \in DOMAIN err : err[k].difficulty # 0
    /\ (queue # {} \/ \E i \in Samples : trial[i].running \/ Returned(i)) => difficulty # 0
    /\ Cardinality(LinesOf(out, {"measuring"}))
          = Cardinality(NonZeroUpTo(idx - 1)) + (IF InBatch THEN 1 ELSE 0)

C7_Witness ==
    /\ \E k \in 1..(idx - 1) : difficulties[k] = 0
    /\ pc = "collect"
    /\ \E i \in Samples : trial[i].running

\* C8: while a trial of the batch has not returned, main waits in collect():
\* it has reduced nothing of the batch, and it is not at the head of the loop,
\* where the next difficulty's trials are launched.
C8_Barrier ==
    /\ (queue # {} \/ \E i \in Samples : trial[i].running) => pc = "collect"
    /\ pc = "collect" =>
          ri = 1 /\ total_nonce_count = 0 /\ successful_samples = 0
    /\ pc \in {"reduce", "report"} => \A i \in Samples : Returned(i)

C8_Witness ==
    /\ pc = "collect"
    /\ idx > 1
    /\ \E i, j \in Samples : Returned(i) /\ trial[j].running

\* The samples among the first n whose result is not the sentinel.
NonSentinel(n) == {i \in 1..n : counts[i].count # U64_MAX}

RECURSIVE SumOfCounts(_)
SumOfCounts(S) ==
    IF S = {} THEN 0
    ELSE LET i == CHOOSE j \in S : TRUE IN counts[i].count + SumOfCounts(S \ {i})

RECURSIVE SumOfSecs(_)
SumOfSecs(S) ==
    IF S = {} THEN 0
    ELSE LET i == CHOOSE j \in S : TRUE IN counts[i].secs + SumOfSecs(S \ {i})

\* C9: after any prefix of the reduction, successful_samples is the number of
\* non-sentinel results seen, total_nonce_count the sum of their attempt counts
\* and total_elapsed_secs the sum of their times; a sentinel result adds to
\* none of them.  With k >= 1 successes the mean printed is that sum over k.
C9_ReductionIsExact ==
    /\ pc \in {"reduce", "report"} =>
          LET S == NonSentinel(ri - 1)
          IN /\ successful_samples = Cardinality(S)
             /\ total_nonce_count = SumOfCounts(S)
             /\ total_elapsed_secs = SumOfSecs(S)
    /\ pc = "report" => ri = NUM_SAMPLES + 1
    /\ summary.kind = "stats" =>
          LET S == NonSentinel(NUM_SAMPLES)
          IN /\ Cardinality(S) >= 1
             /\ summary.samples = Cardinality(S)
             /\ summary.average_nonce_count = Quotient(SumOfCounts(S), Cardinality(S))
             /\ summary.average_elapsed_secs = Quotient(SumOfSecs(S), Cardinality(S))

C9_Witness ==
    /\ summary.kind = "stats"
    /\ summary.samples < NUM_SAMPLES
    /\ summary.average_nonce_count.num > 1
    /\ \E i \in Samples : counts[i].guard = "limit"

\* C10: when every trial of a batch returned the sentinel, the summary of the
\* difficulty has NaN for both means and 0.0 for the hash rate, nothing fails,
\* and the sweep goes on: every non-zero difficulty the loop has passed has its
\* summary line, and at the end every non-zero difficulty of the sweep has.
C10_DegenerateSummary ==
    /\ pc # "panicked"
    /\ (summary.kind # "none" /\ \A i \in Samples : counts[i].count = U64_MAX) =>
          /\ summary.kind = "degenerate"
          /\ summary.average_nonce_count = NaN
          /\ summary.average_elapsed_secs = NaN
          /\ summary.aggregate_hash_rate = Zero
          /\ pc \in {"loop", "done"}
    /\ pc \in {"loop", "done"} =>
          Cardinality(LinesOf(out, {"stats", "degenerate"}))
            = Cardinality(NonZeroUpTo(idx - 1))
    /\ pc = "done" => idx = Len(difficulties) + 1

C10_Witness ==
    /\ pc = "done"
    /\ \E j, k \in DOMAIN out :
          j < k /\ out[j].kind = "degenerate" /\ out[k].kind = "stats"

\* C11: with at least one success the hash rate printed is the sum of the
\* successful attempt counts over the batch's own elapsed time, read from the
\* batch's timer (at most the time since the batch started, at least the time
\* of any one trial) and not the sum of the trials' times; when that elapsed
\* time is 0 the rate is 0.0 and nothing is divided.
C11_ThroughputOverBatchTime ==
    /\ pc = "report" =>
          /\ elapsed_secs <= now - start_time
          /\ \A i \in Samples : counts[i].secs <= elapsed_secs
    /\ summary.kind = "stats" =>
          /\ summary.elapsed_secs = elapsed_secs
          /\ summary.aggregate_hash_rate =
                IF elapsed_secs > 0
                THEN Quotient(SumOfCounts(NonSentinel(NUM_SAMPLES)), elapsed_secs)
                ELSE Zero

C11_Witness ==
    /\ summary.kind = "stats"
    /\ elapsed_secs > 0
    /\ total_elapsed_secs # elapsed_secs
    /\ summary.aggregate_hash_rate.den = elapsed_secs

IsSummaryLine(l) == l.kind \in {"stats", "degenerate"}

IsNonZero(d) == d # 0

\* The difficulties of the summary lines printed so far, in the order printed.
SummaryDifficulties ==
    LET lines == SelectSeq(out, IsSummaryLine)
    IN [k \in 1..Len(lines) |-> lines[k].difficulty]

\* The non-zero difficulties the loop has passed, in sweep order.
PassedDifficulties == SelectSeq(SubSeq(difficulties, 1, idx - 1), IsNonZero)

\* C12: the summary lines printed are those of the non-zero difficulties the
\* loop has passed, one each and in sweep order; a summary line follows the
\* progress line of its own batch, and while a batch is in progress (its trials
\* launched, its results not yet reported) that progress line is the last line
\* of stdout; the completion marker is printed once, last, after the summary of
\* the last difficulty.
C12_SummariesInSweepOrder ==
    /\ SummaryDifficulties = PassedDifficulties
    /\ \A k \in DOMAIN out :
          IsSummaryLine(out[k]) =>
              k > 1 /\ out[k - 1] = Line("measuring", out[k].difficulty)
    /\ (InBatch \/ queue # {} \/ \E i \in Samples : trial[i].running) =>
          out[Len(out)] = Line("measuring", difficulty)
    /\ Cardinality(LinesOf(out, {"complete"})) = (IF pc = "done" THEN 1 ELSE 0)
    /\ pc = "done" =>
          /\ out[Len(out)].kind = "complete"
          /\ idx = Len(difficulties) + 1

C12_Witness ==
    /\ pc = "done"
    /\ Len(SummaryDifficulties) = 2
    /\ SummaryDifficulties[1] # SummaryDifficulties[2]

\* The trials of the batch that ended in one of the two guards.
Aborted == {i \in Samples : counts[i].guard \in {"limit", "ceiling"}}

\* C13 as stated: when every trial of a batch has aborted, the batch has
\* written exactly NUM_SAMPLES lines to stderr by the time it is reduced,
\* find_one_nonce's and main's lines counted together.
C13_Original ==
    (pc = "report" /\ Aborted = Samples) => Len(err) = NUM_SAMPLES

\* C13: when every trial of a batch has aborted, the batch has written
\* 2 * NUM_SAMPLES lines to stderr by the time it is reduced: one warning of
\* find_one_nonce per trial, all of them before the first line of main, and
\* one "Skipping failed sample" line of main per trial.
C13_TwoDiagnosticsPerAbortedTrial ==
    (pc = "report" /\ Aborted = Samples) =>
        /\ Len(err) = 2 * NUM_SAMPLES
        /\ LinesOf(err, {"limit", "ceiling"}) = 1..NUM_SAMPLES
        /\ LinesOf(err, {"skipping"}) = (NUM_SAMPLES + 1)..(2 * NUM_SAMPLES)
        /\ \A k \in DOMAIN err : err[k].difficulty = difficulty

C13_Witness ==
    /\ pc = "report"
    /\ Aborted = Samples
    /\ ~Saturates(difficulty)
    /\ oracle[difficulty] = "never"
    /\ Len(err) = 2 * NUM_SAMPLES

\* The calls of find_one_nonce that are running and have drawn a nonce.
Drawing == {i \in Samples : trial[i].running /\ trial[i].evals > 0}

Queued(i) == i \in queue

Running(i) == trial[i].running

\* The step that opens the batch of a difficulty.
OpensBatch == pc = "loop" /\ pc' = "collect"

\* In every state the samples of a batch are accounted for.
C15_Accounted ==
    /\ pc = "collect" =>
          \A i \in Samples :
              /\ Queued(i) \/ Running(i) \/ Returned(i)
              /\ ~(Queued(i) /\ Running(i))
              /\ ~(Queued(i) /\ Returned(i))
              /\ ~(Running(i) /\ Returned(i))
    /\ pc \in {"reduce", "report"} =>
          \A i \in Samples : ~Queued(i) /\ ~Running(i) /\ Returned(i)
    /\ pc \in {"loop", "done"} =>
          \A i \in Samples : ~Queued(i) /\ ~Running(i)
    /\ InBatch => difficulty # 0 /\ difficulty = difficulties[idx]

\* Every step keeps the order of the phases and the one launch and the one
\* result of every sample.
C15_Step ==
    /\ pc' # pc =>
          <<pc, pc'>> \in {<<"loop", "collect">>, <<"collect", "reduce">>,
                           <<"reduce", "report">>, <<"report", "loop">>,
                           <<"loop", "done">>}
    /\ idx' # idx =>
          /\ idx' = idx + 1
          /\ \/ pc = "report" /\ pc' = "loop"
             \/ pc = "loop" /\ pc' = "loop" /\ difficulties[idx] = 0
    /\ (pc = "report" /\ pc' = "loop") => idx' = idx + 1
    /\ IF OpensBatch
       THEN /\ queue' = Samples
            /\ \A i \in Samples : ~Returned(i)' /\ ~Running(i)'
            /\ difficulties[idx] # 0
       ELSE /\ queue' \subseteq queue
            /\ \A i \in Samples :
                  /\ (Running(i)' /\ ~Running(i)) =>
                        pc = "collect" /\ Queued(i) /\ ~Queued(i)'
                  /\ (Queued(i) /\ ~Queued(i)') => Running(i)'
                  /\ (Returned(i)' /\ ~Returned(i)) => Running(i) /\ ~Running(i)'
                  /\ (Running(i) /\ ~Running(i)') => Returned(i)'
                  /\ Returned(i) => counts'[i] = counts[i]

\* C15: every non-zero difficulty has its batch opened once, with exactly
\* NUM_SAMPLES samples to launch; each sample is launched once, returns one
\* result, and the result is not changed afterwards; main goes from the head
\* of the loop (Pending) to the collect (Running), the reduction (Reducing) and
\* the report (Reported) in that order, and after the report moves on to the
\* next position of the list, never back: no trial is launched for a
\* difficulty that has been reported.
C15_ExactlyOnce == [](C15_Accounted) /\ [][C15_Step]_vars

C15_Witness ==
    /\ pc = "collect"
    /\ idx = 2
    /\ difficulties[1] # 0
    /\ \E i, j \in Samples : Running(i) /\ Returned(j)

\* C16: what the reduction of a batch leaves in successful_samples and
\* total_nonce_count is what the loop of main.rs:123-132 yields on the batch's
\* results taken in any order whatever: it depends on which results there are,
\* not on the order the trials finished in or were collected in.
C16_ReductionIsOrderInsensitive ==
    pc = "report" =>
        \A p \in Permutations(Samples) :
            FoldCounts([i \in Samples |-> counts[p[i]]], NUM_SAMPLES)
                = <<successful_samples, total_nonce_count>>

C16_Witness ==
    /\ pc = "report"
    /\ \E i, j \in Samples :
          /\ ~IsSentinel(counts[i].count)
          /\ ~IsSentinel(counts[j].count)
          /\ counts[i].count # counts[j].count
    /\ total_nonce_count > 0

\* C17: under fair scheduling main reaches the end of the sweep, whatever the
\* sweep list and the oracle: eventually the completion line is printed, with
\* a summary line printed for every non-zero difficulty of the list, batches
\* whose trials all aborted included.
C17_SweepRunsToTheEnd ==
    <>(/\ pc = "done"
       /\ LinesOf(out, {"complete"}) # {}
       /\ SummaryDifficulties = SelectSeq(difficulties, IsNonZero))

C17_Witness ==
    /\ pc = "done"
    /\ Len(SummaryDifficulties) > 1
    /\ LinesOf(out, {"degenerate"}) # {}
    /\ LinesOf(out, {"stats"}) # {}
    /\ LinesOf(err, {"limit"}) # {}

\* The stop timestamp of the open batch has been taken (main.rs:134).
TimerStopped == pc = "report"

\* main has begun to sort the results of the open batch into successful and
\* failed ones (main.rs:123-132).
Partitioning == InBatch /\ ri > 1

\* C18: within a batch the start timestamp is taken before any trial is
\* launched, and the stop timestamp is taken once every trial has returned
\* and before any result is sorted into successful or failed.
C18_Original ==
    /\ pc = "collect" =>
          \A i \in Samples : Running(i) => trial[i].start_time >= start_time
    /\ TimerStopped => \A i \in Samples : Returned(i) /\ ~Running(i)
    /\ Partitioning => TimerStopped

\* The results main has classified so far in the open batch.
Classified == IF InBatch THEN 1..(ri - 1) ELSE {}

\* C19: main takes a result for a failed sample exactly when its trial ended
\* in one of the two guards; a trial in which the oracle accepted a nonce is
\* counted as successful, also when the accepted attempt is number u64::MAX.
C19_Original ==
    /\ \A i \in Classified :
          IsSentinel(counts[i].count) <=> counts[i].guard \in {"limit", "ceiling"}
    /\ pc \in {"reduce", "report"} =>
          successful_samples = Cardinality({i \in Classified : counts[i].accepted})

\* C20: total_nonce_count is 0 when the trials of a difficulty are launched,
\* whatever the batch before left in it; after any prefix of the reduction it
\* is the sum, as a number and not modulo anything, of the non-sentinel counts
\* seen so far, which is at most (U64_MAX - 1) a result and so stays below the
\* width of the accumulator, twice the counter's.
C20_AccumulatorNeverOverflows ==
    /\ pc = "collect" => total_nonce_count = 0
    /\ pc \in {"reduce", "report"} =>
          /\ total_nonce_count = SumOfCounts(NonSentinel(ri - 1))
          /\ total_nonce_count <= (ri - 1) * (U64_MAX - 1)
          /\ NUM_SAMPLES * (U64_MAX - 1) < 2^(2 * COUNTER_BITS)

C20_Witness ==
    /\ pc = "reduce"
    /\ idx = 2
    /\ LinesOf(out, {"stats"}) # {}
    /\ total_nonce_count > U64_MAX

====
